---- MODULE Spec2Model ----
(***************************************************************************)
(* Model of get_news_and_generate_speech (src/api.py): one request of the  *)
(* news pipeline, fetch -> extract -> TF-IDF -> sentiment and keywords ->  *)
(* aggregation -> translation and speech synthesis -> result.              *)
(*                                                                         *)
(* The library calls (requests, BeautifulSoup, VADER, TfidfVectorizer,     *)
(* googletrans, gTTS) are modelled by their contracts: what they return is *)
(* drawn from bounded sets, what the code does with it is computed as the  *)
(* code computes it.                                                       *)
(***************************************************************************)
EXTENDS Integers, Sequences, FiniteSets, TLC

VARIABLES
    company,          \* argument: ticker symbol
    output_language,  \* argument: language code
    output_file,      \* argument: path of the audio file
    pc,               \* position in the function body
    status_code,      \* response.status_code (0 before the response)
    soup,             \* the parsed page: its containers, in document order
    titles,           \* list titles
    summaries,        \* list summaries
    paragraphs,       \* list paragraphs
    keywords_list,    \* vectoriser.get_feature_names_out()
    tfidf_matrix,     \* rows of the TF-IDF matrix, one per paragraph
    scores,           \* compound score of the paragraph analysed last
    articles,         \* list articles
    report,           \* dict report
    summary_final,    \* text chosen as the overall summary
    speech_text,      \* text handed to gTTS
    audio_path,       \* local audio_path
    calls,            \* external calls made so far, in order
    fs,               \* paths written on the filesystem
    raised,           \* the exception a handler caught, "none" if none
    result            \* value returned to the caller

vars == <<company, output_language, output_file, pc, status_code, soup,
          titles, summaries, paragraphs, keywords_list, tfidf_matrix, scores,
          articles, report, summary_final, speech_text, audio_path, calls,
          fs, raised, result>>

----------------------------------------------------------------------------
(* Bounds of the model *)

MaxContainers == 2
MaxNodes == 2
MaxArticles == 3
ManyArticles == 6

(* Program constants *)

TopK == 5
MaxFeatures == 50
HttpOk == 200
\* VADER rounds the compound score to 4 decimals: scores are in 1/10000
ScoreScale == 10000
\* 0.05 and -0.05 in units of 1/ScoreScale
PositiveThreshold == 500
NegativeThreshold == -500

None == "None"
NativeLanguage == "en"
NoText == [kind |-> "none", id |-> 0, lang |-> "none"]
EmptyMapping == [k \in {} |-> 0]
EmptyReport ==
    [sentiment_distribution |-> EmptyMapping,
     coverage_differences |-> <<>>,
     common_topics |-> <<>>]

Min(a, b) == IF a <= b THEN a ELSE b

(* Inputs *)

Tickers == {"AAPL", "NOSUCH"}
Languages == {"en", "hi"}
OutputFiles == {"news_summary.mp3", "apple_news.mp3"}
StatusCodes == {200, 404, 500}
ScoreSamples == {-2000, -501, -500, -499, 0, 499, 500, 501, 5000}

Url(c) == <<"https://finance.yahoo.com/quote/", c, "/news/">>

----------------------------------------------------------------------------
(* Extraction: src/api.py 42-51 *)

\* get_text() of a node that ends up in a pair: the texts of a page are
\* told apart by the order in which the pairs are collected
NodeText(kind, n) == [kind |-> kind, id |-> n, lang |-> NativeLanguage]

\* A container: how many h3 and p nodes of the class it holds
Container == [h3 : 0..MaxNodes, p : 0..MaxNodes]

\* zip(title_all, summary_all) of the c-th container, `before` pairs having
\* been collected from the containers before it: the shorter list decides
\* the length
ZipContainer(page, c, before) ==
    [k \in 1..Min(page[c].h3, page[c].p) |->
        <<NodeText("h3", before + k), NodeText("p", before + k)>>]

\* The (title, summary) pairs of the containers from the c-th on
RECURSIVE ExtractPairs(_, _, _)
ExtractPairs(page, c, before) ==
    IF c > Len(page) THEN <<>>
    ELSE LET here == ZipContainer(page, c, before)
         IN  here \o ExtractPairs(page, c + 1, before + Len(here))

\* title_text + ' ' + summary_text
Paragraph(pair) == <<pair[1], " ", pair[2]>>

\* Pages of the layout the site serves: one title and one summary in each
\* of up to n containers
RegularPages(n) == {[c \in 1..k |-> [h3 |-> 1, p |-> 1]] : k \in 0..n}

\* Pages whose containers hold any number of titles and of summaries
RaggedPages == UNION {[1..n -> Container] : n \in 0..MaxContainers}

----------------------------------------------------------------------------
(* Analysis: src/api.py 61-85 *)

\* Lines 69-74 with the comparisons made strict
SentimentStrict(s) ==
    IF s > PositiveThreshold THEN "positive"
    ELSE IF s < NegativeThreshold THEN "negative"
    ELSE "neutral"

\* Lines 69-74: the label of a compound score
Sentiment(s) ==
    IF s >= PositiveThreshold THEN "positive"
    ELSE IF s <= NegativeThreshold THEN "negative"
    ELSE "neutral"

\* The sequences of Min(m, |D|) elements of D in non-increasing order of w
\* that leave out no element heavier than one they hold. The order among
\* equal weights is the sort's own (numpy's and pandas' default sort is not
\* stable), so every order of a tie is an outcome.
RECURSIVE TopDesc(_, _, _)
TopDesc(w, D, m) ==
    IF m = 0 \/ D = {} THEN {<<>>}
    ELSE LET best == {d \in D : \A e \in D : w[e] <= w[d]}
         IN  UNION {{<<d>> \o rest : rest \in TopDesc(w, D \ {d}, m - 1)} :
                    d \in best}

\* The slice taken one longer: argsort()[-6:][::-1]
ArgsortTailLonger(row) == TopDesc(row, DOMAIN row, TopK + 1)

\* tfidf_scores.argsort()[-5:][::-1]: column indices, 0-based
ArgsortTail(row) == TopDesc(row, DOMAIN row, TopK)

\* [keywords_list[j] for j in ...]
Keywords(row, kl) ==
    {[k \in 1..Len(ix) |-> kl[ix[k] + 1]] : ix \in ArgsortTail(row)}

\* TfidfVectorizer(max_features=50): the vocabulary keeps at most
\* max_features of the corpus' nTerms terms; the terms are named by their
\* alphabetical rank in the vocabulary
FeatureNames(nTerms) == [k \in 1..Min(nTerms, MaxFeatures) |-> k]

\* A row of the matrix over V columns: weights l, .., 1 on the l columns
\* from column s on, 0 elsewhere
WindowRow(V, s, l) ==
    [j \in 0..(V - 1) |-> IF j >= s /\ j < s + l THEN s + l - j ELSE 0]

\* A row of the matrix over V columns: a weight on the columns cols, the
\* heavier the lower the column, 0 elsewhere
SetRow(V, cols) == [j \in 0..(V - 1) |-> IF j \in cols THEN V - j ELSE 0]

\* The columns of the five heaviest terms of a paragraph: sets that share
\* four terms, one term and no term with one another
TopicSets ==
    {{0, 1, 2, 3, 4}, {0, 1, 2, 3, 5}, {0, 1, 2, 4, 5}, {4, 6, 7, 8, 9},
     {0, 1, 2, 3, 6}}

\* The number of terms a corpus may hold, per family of inputs
TermCounts(family) ==
    CASE family = "plain" -> {0, 3, MaxFeatures + 1}
      [] family = "topics" -> {2, 2 * TopK}
      [] OTHER -> {1}

\* The rows a paragraph may get over V columns, per family of inputs
Rows(family, V) ==
    CASE family = "plain" ->
            {WindowRow(V, V - Min(V, TopK + 1), Min(V, TopK + 1))}
      [] family = "topics" ->
            IF V < 2 * TopK THEN {WindowRow(V, 0, 0), WindowRow(V, 0, 1)}
            ELSE {SetRow(V, cols) : cols \in TopicSets}
      [] OTHER -> {WindowRow(V, 0, 1)}

----------------------------------------------------------------------------
(* Aggregation: src/api.py 88-115 *)

Range(seq) == {seq[i] : i \in DOMAIN seq}

\* The distribution counted over the articles that are returned
SentimentDistReturned(arts) ==
    [l \in {arts[i].sentiment : i \in 1..Min(Len(arts), TopK)} |->
        Cardinality({i \in 1..Min(Len(arts), TopK) : arts[i].sentiment = l})]

\* df['sentiment'].value_counts().to_dict()
SentimentDist(arts) ==
    [l \in {arts[i].sentiment : i \in DOMAIN arts} |->
        Cardinality({i \in DOMAIN arts : arts[i].sentiment = l})]

\* The nested loops without the test i != j
TallyWithSelf(arts, k) ==
    Cardinality({ij \in (DOMAIN arts) \X (DOMAIN arts) :
        k \in Range(arts[ij[1]].Key_topics)
              \cap Range(arts[ij[2]].Key_topics)})

\* How often keyword k is appended to report["common_topics"] by the two
\* nested loops over the rows
Tally(arts, k) ==
    Cardinality({ij \in (DOMAIN arts) \X (DOMAIN arts) :
        /\ ij[1] # ij[2]
        /\ k \in Range(arts[ij[1]].Key_topics)
                 \cap Range(arts[ij[2]].Key_topics)})

Tallied(arts) ==
    {k \in UNION {Range(arts[i].Key_topics) : i \in DOMAIN arts} :
        Tally(arts, k) > 0}

\* The counts sorted the other way: value_counts(ascending=True).head(5)
CommonTopicsAscending(arts) ==
    TopDesc([k \in Tallied(arts) |-> 0 - Tally(arts, k)], Tallied(arts), TopK)

\* common_topics_count.head(5).index.tolist(), [] when nothing was tallied
CommonTopics(arts) ==
    TopDesc([k \in Tallied(arts) |-> Tally(arts, k)], Tallied(arts), TopK)

----------------------------------------------------------------------------
(* Narration: src/api.py 118-147 *)

\* translator.translate(text, src='en', dest=lang).text
Translate(text, lang) == [text EXCEPT !.lang = lang]

\* The dict returned at line 142
Result(arts, summary, audio, rep) ==
    [articles |-> SubSeq(arts, 1, Min(Len(arts), TopK)),
     summary_total |-> summary,
     audio_path |-> audio,
     report |-> rep]

----------------------------------------------------------------------------
(* The request: src/api.py 19-151 *)

Init ==
    /\ company \in Tickers
    /\ output_language \in Languages
    /\ output_file \in OutputFiles
    /\ pc = "fetch"
    /\ status_code = 0
    /\ soup = <<>>
    /\ titles = <<>>
    /\ summaries = <<>>
    /\ paragraphs = <<>>
    /\ keywords_list = <<>>
    /\ tfidf_matrix = <<>>
    /\ scores = 0
    /\ articles = <<>>
    /\ report = EmptyReport
    /\ summary_final = NoText
    /\ speech_text = NoText
    /\ audio_path = None
    /\ calls = <<>>
    /\ fs = {}
    /\ raised = "none"
    /\ result = EmptyMapping

\* Lines 29, 55 and 151: return {}
ReturnEmpty ==
    /\ pc' = "failed"
    /\ result' = EmptyMapping

\* The outer handler, lines 149-151: whatever was raised, return {}
Caught(exc) ==
    /\ raised' = exc
    /\ ReturnEmpty

\* Line 27 testing for one status only
FailedNotFound(code) == code = 404

\* Line 27: response.status_code != 200
Failed(code) == code # HttpOk

\* Lines 21-29: the GET raises, or answers with a status code
Fetch ==
    /\ pc = "fetch"
    /\ calls' = Append(calls, [op |-> "requests.get", url |-> Url(company)])
    /\ \/ /\ Caught("ConnectionError")
          /\ UNCHANGED status_code
       \/ \E code \in StatusCodes :
            /\ status_code' = code
            /\ IF Failed(code)
               THEN ReturnEmpty
               ELSE /\ pc' = "extract"
                    /\ UNCHANGED result
            /\ UNCHANGED raised
    /\ UNCHANGED <<company, output_language, output_file, soup, titles,
                   summaries, paragraphs, keywords_list, tfidf_matrix, scores,
                   articles, report, summary_final, speech_text, audio_path,
                   fs>>

\* Line 53 never taking the early return
NoArticlesNever(paras) == FALSE

\* Line 53: not paragraphs
NoArticles(paras) == paras = <<>>

\* Lines 31-55: the page is parsed; SentimentIntensityAnalyzer() raises
\* LookupError without its lexicon; otherwise the pairs of the page are
\* collected
Extract(pages) ==
    /\ pc = "extract"
    /\ soup' \in pages
    /\ \/ /\ Caught("LookupError")
          /\ UNCHANGED <<titles, summaries, paragraphs>>
       \/ LET pairs == ExtractPairs(soup', 1, 0) IN
          /\ titles' = [i \in DOMAIN pairs |-> pairs[i][1]]
          /\ summaries' = [i \in DOMAIN pairs |-> pairs[i][2]]
          /\ paragraphs' = [i \in DOMAIN pairs |-> Paragraph(pairs[i])]
          /\ IF NoArticles(paragraphs')
             THEN ReturnEmpty
             ELSE /\ pc' = "vectorise"
                  /\ UNCHANGED result
          /\ UNCHANGED raised
    /\ UNCHANGED <<company, output_language, output_file, status_code,
                   keywords_list, tfidf_matrix, scores, articles, report,
                   summary_final, speech_text, audio_path, calls, fs>>

\* Lines 61-63: fit_transform raises ValueError on an empty vocabulary
\* (paragraphs of stop words only); otherwise one row per paragraph
Vectorise(family) ==
    /\ pc = "vectorise"
    /\ \E nTerms \in TermCounts(family) :
         IF nTerms = 0
         THEN /\ Caught("ValueError")
              /\ UNCHANGED <<keywords_list, tfidf_matrix>>
         ELSE /\ keywords_list' = FeatureNames(nTerms)
              /\ tfidf_matrix' \in
                    [DOMAIN paragraphs -> Rows(family, Len(keywords_list'))]
              /\ pc' = "analyze"
              /\ UNCHANGED <<raised, result>>
    /\ UNCHANGED <<company, output_language, output_file, status_code, soup,
                   titles, summaries, paragraphs, scores, articles, report,
                   summary_final, speech_text, audio_path, calls, fs>>

\* Lines 67-85: one turn of the loop over the paragraphs
Analyze(scoreSet) ==
    /\ pc = "analyze"
    /\ LET i == Len(articles) + 1 IN
       /\ i <= Len(paragraphs)
       /\ \E s \in scoreSet,
             keywords \in Keywords(tfidf_matrix[i], keywords_list) :
            /\ scores' = s
            /\ articles' = Append(articles,
                              [Title |-> titles[i],
                               summary |-> summaries[i],
                               sentiment |-> Sentiment(s),
                               Key_topics |-> keywords])
       /\ pc' = IF i = Len(paragraphs) THEN "aggregate" ELSE "analyze"
    /\ UNCHANGED <<company, output_language, output_file, status_code, soup,
                   titles, summaries, paragraphs, keywords_list, tfidf_matrix,
                   report, summary_final, speech_text, audio_path, calls, fs,
                   raised, result>>

\* Lines 88-118
Aggregate ==
    /\ pc = "aggregate"
    /\ \E topics \in CommonTopics(articles) :
         report' = [sentiment_distribution |-> SentimentDist(articles),
                    coverage_differences |-> <<>>,
                    common_topics |-> topics]
    /\ summary_final' = articles[1].summary
    /\ audio_path' = None
    /\ pc' = "narrate"
    /\ UNCHANGED <<company, output_language, output_file, status_code, soup,
                   titles, summaries, paragraphs, keywords_list, tfidf_matrix,
                   scores, articles, speech_text, calls, fs, raised, result>>

\* Lines 141-147, with the audio path the narration ended with
Return(audio) ==
    /\ audio_path' = audio
    /\ result' = Result(articles, summary_final, audio, report)
    /\ pc' = "done"

\* The exception of the narration reaching the outer handler
Escapes(exc) ==
    /\ Caught(exc)
    /\ UNCHANGED audio_path

\* The inner handler, lines 137-139: audio_path = None, and on to line 141
Handled(exc) ==
    /\ raised' = exc
    /\ Return(None)

\* Line 122 translating whatever the language
AlwaysTranslate(lang) == TRUE

\* Line 122: output_language != 'en'
NeedsTranslation(lang) == lang # NativeLanguage

\* Lines 122-126: the translation call returns the text, or raises
TranslateSummary ==
    /\ pc = "narrate"
    /\ NeedsTranslation(output_language)
    /\ calls' = Append(calls,
                  [op |-> "translate", text |-> summary_final,
                   dest |-> output_language])
    /\ \/ /\ speech_text' = Translate(summary_final, output_language)
          /\ pc' = "synthesise"
          /\ UNCHANGED <<audio_path, raised, result>>
       \/ /\ Handled("TranslateError")
          /\ UNCHANGED speech_text
    /\ UNCHANGED <<company, output_language, output_file, status_code, soup,
                   titles, summaries, paragraphs, keywords_list, tfidf_matrix,
                   scores, articles, report, summary_final, fs>>

\* Lines 129-136: gTTS(text, lang) raises, or tts.save(output_file) writes
\* the file, or raises before or after it has created the file
Synthesise ==
    /\ \/ pc = "synthesise"
       \/ pc = "narrate" /\ ~NeedsTranslation(output_language)
    /\ LET text == IF pc = "synthesise" THEN speech_text ELSE summary_final
           tts == [op |-> "gTTS", text |-> text, lang |-> output_language]
           save == [op |-> "save", file |-> output_file]
       IN
       /\ speech_text' = text
       /\ \/ /\ calls' = Append(calls, tts)
             /\ Handled("gTTSError")
             /\ UNCHANGED fs
          \/ /\ calls' = calls \o <<tts, save>>
             /\ \/ /\ fs' = fs \cup {output_file}
                   /\ Return(output_file)
                   /\ UNCHANGED raised
                \/ /\ fs' \in {fs, fs \cup {output_file}}
                   /\ Handled("gTTSError")
    /\ UNCHANGED <<company, output_language, output_file, status_code, soup,
                   titles, summaries, paragraphs, keywords_list, tfidf_matrix,
                   scores, articles, report, summary_final>>

----------------------------------------------------------------------------
(* Specifications *)

\* One score per label
LabelScores == {NegativeThreshold, 0, PositiveThreshold}

Next ==
    \/ Fetch
    \/ Extract(RegularPages(MaxArticles))
    \/ Vectorise("plain")
    \/ Analyze(LabelScores)
    \/ Aggregate
    \/ TranslateSummary
    \/ Synthesise

Spec == Init /\ [][Next]_vars

\* One caller
InitOne ==
    /\ Init
    /\ company = "AAPL"
    /\ output_file = "apple_news.mp3"

\* The same request over pages of any shape: one term, one score
NextPage ==
    \/ Fetch
    \/ Extract(RaggedPages)
    \/ Vectorise("single")
    \/ Analyze({0})
    \/ Aggregate
    \/ TranslateSummary
    \/ Synthesise

SpecPage == InitOne /\ [][NextPage]_vars

\* The same request over pages of many articles: one term, scores at and
\* around the thresholds
NextMany ==
    \/ Fetch
    \/ Extract(RegularPages(ManyArticles))
    \/ Vectorise("single")
    \/ Analyze(ScoreSamples)
    \/ Aggregate
    \/ TranslateSummary
    \/ Synthesise

SpecMany == InitOne /\ [][NextMany]_vars

\* The same request over corpora whose paragraphs share and do not share
\* their heaviest terms: one score, one caller asking for Hindi
InitTopics ==
    /\ InitOne
    /\ output_language = "hi"

NextTopics ==
    \/ Fetch
    \/ Extract(RegularPages(MaxArticles))
    \/ Vectorise("topics")
    \/ Analyze({0})
    \/ Aggregate
    \/ TranslateSummary
    \/ Synthesise

SpecTopics == InitTopics /\ [][NextTopics]_vars

----------------------------------------------------------------------------
(* Properties *)

Labels == {"positive", "neutral", "negative"}

\* The indices of the external calls of one kind
CallsOf(op) == {i \in DOMAIN calls : calls[i].op = op}

\* The keywords of the i-th analysed article, as a set
KeywordSet(i) == Range(articles[i].Key_topics)

\* The report has been built
Aggregated == pc \in {"narrate", "synthesise", "done"}

\* C1: whenever the GET answered with a status other than 200, the request
\* has returned the empty mapping, by the early return and not by an
\* exception, and nothing was extracted or analysed.
C1_NonOkReturnsEmpty ==
    (status_code # 0 /\ status_code # 200) =>
        /\ pc = "failed"
        /\ result = EmptyMapping
        /\ raised = "none"
        /\ paragraphs = <<>>
        /\ articles = <<>>

C1_Witness ==
    /\ pc = "failed"
    /\ status_code = 404
    /\ result = EmptyMapping

\* C2: when the GET answered 200 and the page gives no (title, summary)
\* pair (no container, or every container without a title or without a
\* summary), the request has returned the empty mapping once the extraction
\* is over, and went no further.
C2_NoPairsReturnsEmpty ==
    ( /\ status_code = 200
      /\ pc \notin {"fetch", "extract"}
      /\ \A c \in DOMAIN soup : soup[c].h3 = 0 \/ soup[c].p = 0 ) =>
        /\ pc = "failed"
        /\ result = EmptyMapping
        /\ articles = <<>>
        /\ calls = <<[op |-> "requests.get", url |-> Url(company)]>>

C2_Witness ==
    /\ pc = "failed"
    /\ status_code = 200
    /\ raised = "none"
    /\ Len(soup) = 2
    /\ soup[1].h3 > 0 /\ soup[1].p = 0
    /\ soup[2].h3 = 0 /\ soup[2].p > 0
    /\ result = EmptyMapping

\* C3: when the translation or the synthesis raised, the request has still
\* returned a result that is not the empty mapping: its articles (the first
\* five analysed, at least one), its summary and its report are those built
\* before the narration, and its audio_path is None.
C3_NarrationFailureKeepsResult ==
    (raised \in {"TranslateError", "gTTSError"}) =>
        /\ pc = "done"
        /\ result # EmptyMapping
        /\ DOMAIN result = {"articles", "summary_total", "audio_path", "report"}
        /\ result.audio_path = None
        /\ Len(result.articles) >= 1
        /\ result.articles = SubSeq(articles, 1, Min(Len(articles), 5))
        /\ result.summary_total = summaries[1]
        /\ result.report = report
        /\ DOMAIN report.sentiment_distribution # {}

C3_Witness ==
    /\ pc = "done"
    /\ raised = "gTTSError"
    /\ CallsOf("save") # {}
    /\ result.audio_path = None
    /\ Len(result.articles) >= 1

\* C4: a request for 'en' makes no translation call, hands gTTS the summary
\* as it is, and if nothing raised returns the caller's path as audio_path;
\* a request for another language makes the translation call before any
\* gTTS call and hands gTTS the translated summary.
C4_TranslationOnlyWhenNeeded ==
    /\ output_language = "en" =>
          /\ CallsOf("translate") = {}
          /\ \A i \in CallsOf("gTTS") :
                calls[i].text = summary_final /\ calls[i].lang = "en"
          /\ pc = "done" => CallsOf("gTTS") # {}
          /\ (pc = "done" /\ raised = "none") =>
                /\ CallsOf("save") # {}
                /\ output_file \in fs
                /\ audio_path = output_file
                /\ result.audio_path = output_file
    /\ output_language # "en" =>
          \A i \in CallsOf("gTTS") :
             /\ calls[i].lang = output_language
             /\ calls[i].text = [summary_final EXCEPT !.lang = output_language]
             /\ calls[i].text # summary_final
             /\ \E j \in CallsOf("translate") :
                   /\ j < i
                   /\ calls[j].text = summary_final
                   /\ calls[j].dest = output_language

C4_Witness ==
    /\ pc = "done"
    /\ output_language = "en"
    /\ raised = "none"
    /\ result.audio_path = output_file
    /\ CallsOf("gTTS") # {}

\* The count a distribution lists for a label, 0 when it lists none
CountOf(d, l) == IF l \in DOMAIN d THEN d[l] ELSE 0

\* C5: in every result that is not the empty mapping, the counts of
\* report.sentiment_distribution add up to the number of analysed articles
\* (the pairs extracted), whatever the number of articles returned; its keys
\* are labels and each count is at least 1.
C5_DistributionSumsToAnalysed ==
    pc = "done" =>
        LET d == result.report.sentiment_distribution IN
        /\ DOMAIN d \subseteq Labels
        /\ \A l \in DOMAIN d : d[l] >= 1
        /\ CountOf(d, "positive") + CountOf(d, "neutral")
              + CountOf(d, "negative") = Len(paragraphs)
        /\ Len(paragraphs) = Len(soup)
        /\ Len(articles) = Len(paragraphs)

C5_Witness ==
    /\ pc = "done"
    /\ Len(paragraphs) = 6
    /\ Len(result.articles) = 5
    /\ DOMAIN result.report.sentiment_distribution = Labels

\* The keywords two distinct articles share
SharedKeywords ==
    UNION {KeywordSet(ij[1]) \cap KeywordSet(ij[2]) :
             ij \in {p \in (DOMAIN articles) \X (DOMAIN articles) :
                       p[1] # p[2]}}

\* C6, first half: when the keyword sets of the articles are pairwise
\* disjoint, report.common_topics is empty.
C6_DisjointGivesNone ==
    (\A i \in DOMAIN articles, j \in DOMAIN articles :
        i # j => KeywordSet(i) \cap KeywordSet(j) = {})
    => report.common_topics = <<>>

\* C6 as claimed: the first half, and the keyword that two articles share,
\* when they share exactly one, is in report.common_topics.
C6_AsClaimed ==
    Aggregated =>
        /\ C6_DisjointGivesNone
        /\ \A i \in DOMAIN articles, j \in DOMAIN articles :
              (i # j /\ Cardinality(KeywordSet(i) \cap KeywordSet(j)) = 1)
              => KeywordSet(i) \cap KeywordSet(j)
                    \subseteq Range(report.common_topics)

\* C6 as amended: the first half, and the keyword that two articles share,
\* when they share exactly one, is in report.common_topics provided the
\* articles of the request share at most 5 keywords between them.
C6_SharedKeywordListed ==
    Aggregated =>
        /\ C6_DisjointGivesNone
        /\ \A i \in DOMAIN articles, j \in DOMAIN articles :
              ( /\ i # j
                /\ Cardinality(KeywordSet(i) \cap KeywordSet(j)) = 1
                /\ Cardinality(SharedKeywords) <= 5 )
              => KeywordSet(i) \cap KeywordSet(j)
                    \subseteq Range(report.common_topics)

C6_Witness ==
    /\ pc = "done"
    /\ Len(articles) = 3
    /\ KeywordSet(1) \cap KeywordSet(2) = {}
    /\ Cardinality(KeywordSet(1) \cap KeywordSet(3)) = 1
    /\ KeywordSet(1) \cap KeywordSet(3) \subseteq Range(report.common_topics)
    /\ Cardinality(SharedKeywords) = 5

\* C7: the label of the article analysed last is one of the three labels and
\* is decided by the compound score alone: positive from 0.05 up, negative
\* from -0.05 down, neutral in between. Every article is the last one when
\* it is built, and is never changed afterwards.
C7_LabelByThresholds ==
    articles # <<>> =>
        LET label == articles[Len(articles)].sentiment IN
        /\ label \in Labels
        /\ label = "positive" <=> 100 * scores >= 5 * ScoreScale
        /\ label = "negative" <=> 100 * scores <= (0 - 5) * ScoreScale
        /\ label = "neutral" <=>
              ( /\ 100 * scores < 5 * ScoreScale
                /\ 100 * scores > (0 - 5) * ScoreScale )

C7_Witness ==
    /\ Len(articles) = 2
    /\ 100 * scores = 5 * ScoreScale
    /\ articles[2].sentiment = "positive"
    /\ articles[1].sentiment = "neutral"

\* C8: the vocabulary of the request has at most 50 terms, and the keyword
\* list of every article has at most 5 entries, none repeated, each a term
\* of the vocabulary.
C8_KeywordsFromVocabulary ==
    /\ Len(keywords_list) <= 50
    /\ \A i \in DOMAIN articles :
          LET kw == articles[i].Key_topics IN
          /\ Len(kw) <= 5
          /\ \A a \in DOMAIN kw, b \in DOMAIN kw : a # b => kw[a] # kw[b]
          /\ \A a \in DOMAIN kw : kw[a] \in Range(keywords_list)

C8_Witness ==
    /\ pc = "done"
    /\ Len(keywords_list) = 50
    /\ Len(articles) >= 2
    /\ Len(articles[1].Key_topics) = 5

\* The stage of the request at a position of the function body
Stage(p) ==
    CASE p = "fetch" -> "FETCHING"
      [] p = "extract" -> "EXTRACTING"
      [] p \in {"vectorise", "analyze"} -> "ANALYZING"
      [] p = "aggregate" -> "AGGREGATING"
      [] p \in {"narrate", "synthesise"} -> "NARRATING"
      [] p = "done" -> "DONE"
      [] OTHER -> "FAILED"

NextStage(st) ==
    CASE st = "FETCHING" -> "EXTRACTING"
      [] st = "EXTRACTING" -> "ANALYZING"
      [] st = "ANALYZING" -> "AGGREGATING"
      [] st = "AGGREGATING" -> "NARRATING"
      [] st = "NARRATING" -> "DONE"
      [] OTHER -> "NONE"

\* A step of the request that leaves its stage goes to the next stage, or
\* from one of the stages `failing` to FAILED; FAILED is left with the empty
\* mapping and DONE with a result that is not empty
StageStep(failing) ==
    LET a == Stage(pc)
        b == Stage(pc')
    IN  /\ a # b =>
              \/ b = NextStage(a)
              \/ b = "FAILED" /\ a \in failing
        /\ (a # b /\ b = "FAILED") => result' = EmptyMapping
        /\ (a # b /\ b = "DONE") =>
              /\ result' # EmptyMapping
              /\ Len(result'.articles) >= 1

\* A request in NARRATING can take its next step
NarrationGoesOn ==
    Stage(pc) = "NARRATING" => ENABLED (TranslateSummary \/ Synthesise)

\* C9 as claimed: the stages follow one another in order, FAILED is entered
\* from FETCHING or EXTRACTING only, and a request in NARRATING goes on to
\* DONE with a result that is not empty.
C9_AsClaimed ==
    /\ [][StageStep({"FETCHING", "EXTRACTING"})]_vars
    /\ []NarrationGoesOn

\* C9 as amended: the same, with FAILED entered from FETCHING, EXTRACTING or
\* ANALYZING.
C9_StagesInOrder ==
    /\ [][StageStep({"FETCHING", "EXTRACTING", "ANALYZING"})]_vars
    /\ []NarrationGoesOn

C9_Witness ==
    /\ pc = "failed"
    /\ raised = "ValueError"
    /\ paragraphs # <<>>
    /\ result = EmptyMapping

\* The articles that hold keyword k
Holders(k) == {i \in DOMAIN articles : k \in KeywordSet(i)}

\* The ordered pairs of distinct articles that both hold keyword k
PairTally(k) == Cardinality(Holders(k)) * (Cardinality(Holders(k)) - 1)

\* C10: report.common_topics lists keywords tallied over the ordered pairs
\* of distinct analysed articles: as many as were tallied, at most 5, none
\* twice, in non-increasing order of tally, and no keyword left out has a
\* higher tally than a listed one.
C10_TopTalliedKeywords ==
    Aggregated =>
        LET ct == report.common_topics
            all == UNION {KeywordSet(i) : i \in DOMAIN articles}
            tallied == {k \in all : PairTally(k) > 0}
        IN  /\ Len(ct) = Min(5, Cardinality(tallied))
            /\ Range(ct) \subseteq tallied
            /\ \A a \in DOMAIN ct, b \in DOMAIN ct :
                  /\ a # b => ct[a] # ct[b]
                  /\ a < b => PairTally(ct[a]) >= PairTally(ct[b])
            /\ \A k \in tallied \ Range(ct), a \in DOMAIN ct :
                  PairTally(k) <= PairTally(ct[a])

C10_Witness ==
    /\ pc = "done"
    /\ Cardinality(SharedKeywords) > 5
    /\ Len(report.common_topics) = 5
    /\ PairTally(report.common_topics[1]) > PairTally(report.common_topics[5])

\* C11: a request that returned the empty mapping made no translation call,
\* no gTTS call and no save call, and wrote no file at output_file; a
\* request that returned a result that is not empty has audio_path None or
\* output_file, and output_file only when the save call was made, nothing
\* was raised and the file is written.
C11_EmptyMeansNoNarration ==
    /\ pc = "failed" =>
          /\ result = EmptyMapping
          /\ CallsOf("translate") = {}
          /\ CallsOf("gTTS") = {}
          /\ CallsOf("save") = {}
          /\ output_file \notin fs
    /\ pc = "done" =>
          /\ result # EmptyMapping
          /\ result.audio_path \in {None, output_file}
          /\ result.audio_path = output_file =>
                /\ CallsOf("save") # {}
                /\ raised = "none"
                /\ output_file \in fs
          /\ raised # "none" => result.audio_path = None

C11_Witness ==
    /\ pc = "failed"
    /\ raised = "LookupError"
    /\ status_code = HttpOk
    /\ result = EmptyMapping
    /\ Len(calls) = 1
    /\ fs = {}

====
